---- MODULE Spec2Model ----
(***************************************************************************)
(* Model of umtools: the record descriptor (user.py, UserBaseModel) and    *)
(* the table manager (sqlite_um.py, SQLiteUserManager) over an SQLite      *)
(* table.  Every manager operation is one action; the SQLite engine is     *)
(* modelled by the operators of the "engine" section (type affinity,       *)
(* rowid assignment, UNIQUE / PRIMARY KEY checks, scan order).             *)
(***************************************************************************)
EXTENDS Integers, Sequences, FiniteSets, TLC

(* ------------------------------ bounds -------------------------------- *)
\* Largest number of rows the table is allowed to hold in the model.
MaxRows == 2
\* Integers (and numerals, and UUIDs) range over 1..MaxInt.
MaxInt == 2
\* Largest rowid the model lets the table reach.
MaxRowid == 3
\* Largest number of handles left open that the model tracks.
MaxLeaked == 1

(* ------------------------------ values -------------------------------- *)
\* Python / SQLite values.  "numstr" is a str holding the decimal numeral
\* of n ('1', '2'), "word" a str that is not numeric, "uuid" a uuid.UUID
\* object and "uuidstr" its canonical text (what the adapter produces).
NULL == [k |-> "null", n |-> 0]
IntV(n) == [k |-> "int", n |-> n]
NumStr(n) == [k |-> "numstr", n |-> n]
Word(n) == [k |-> "word", n |-> n]
UuidV(n) == [k |-> "uuid", n |-> n]
UuidStr(n) == [k |-> "uuidstr", n |-> n]

NoExc == "none"

(* --------------------------- character strings ------------------------ *)
\* Strings the code searches or slices are sequences of characters.
EMPTY == <<>>
UNIQUE == <<"U", "N", "I", "Q", "U", "E">>
PRIMARY_KEY == <<"P", "R", "I", "M", "A", "R", "Y", " ", "K", "E", "Y">>
PRIMARY_KEY_ASC == <<"P", "R", "I", "M", "A", "R", "Y", " ", "K", "E", "Y", " ", "A", "S", "C">>
PK_CODE == <<"P", "R", "I", "M", "A", "R", "Y", " ", "K", "E", "Y", " ", "(", "c", "o", "d", "e", ")">>
PK_CODE_NAME == <<"P", "R", "I", "M", "A", "R", "Y", " ", "K", "E", "Y", " ", "(", "c", "o", "d", "e", ",", " ", "n", "a", "m", "e", ")">>
DEFAULT_WR == <<"D", "E", "F", "A", "U", "L", "T", " ", "'", "w", "i", "t", "h", "o", "u", "t", " ", "r", "o", "w", "i", "d", "'">>
primary_key == <<"p", "r", "i", "m", "a", "r", "y", " ", "k", "e", "y">>
unique_kw == <<"u", "n", "i", "q", "u", "e">>
without_rowid_kw == <<"w", "i", "t", "h", "o", "u", "t", " ", "r", "o", "w", "i", "d">>

UpperChars == {"A", "B", "C", "D", "E", "F", "G", "H", "I", "J", "K", "L", "M", "N", "O", "P", "Q", "R", "S", "T", "U", "V", "W", "X", "Y", "Z"}
LowerOf == [ch \in UpperChars |-> CASE ch = "A" -> "a" [] ch = "B" -> "b" [] ch = "C" -> "c" [] ch = "D" -> "d" [] ch = "E" -> "e" [] ch = "F" -> "f" [] ch = "G" -> "g" [] ch = "H" -> "h" [] ch = "I" -> "i" [] ch = "J" -> "j" [] ch = "K" -> "k" [] ch = "L" -> "l" [] ch = "M" -> "m" [] ch = "N" -> "n" [] ch = "O" -> "o" [] ch = "P" -> "p" [] ch = "Q" -> "q" [] ch = "R" -> "r" [] ch = "S" -> "s" [] ch = "T" -> "t" [] ch = "U" -> "u" [] ch = "V" -> "v" [] ch = "W" -> "w" [] ch = "X" -> "x" [] ch = "Y" -> "y" [] ch = "Z" -> "z"]

\* str.lower()
Lower(s) == [i \in 1..Len(s) |-> IF s[i] \in UpperChars THEN LowerOf[s[i]] ELSE s[i]]

\* str.find(sub, start): 0-based index of the first occurrence at or after
\* start, -1 when there is none.
Find(s, sub, start) ==
    LET first(hits) ==
            IF hits = {} THEN -1 ELSE CHOOSE i \in hits : \A h \in hits : i <= h
    IN  first({i \in start..(Len(s) - Len(sub)) :
                  \A j \in 1..Len(sub) : s[i + j] = sub[j]})

\* sub in s
Contains(s, sub) == Find(s, sub, 0) # -1

\* s[start:end] for start >= 0; a negative end counts from the end of s.
Slice(s, start, end) ==
    LET e == IF end < 0 THEN Len(s) + end ELSE IF end > Len(s) THEN Len(s) ELSE end
    IN  IF e <= start THEN <<>> ELSE SubSeq(s, start + 1, e)

\* s.split(' ')[0]
FirstWord(s) ==
    LET upto(sp) == IF sp = -1 THEN s ELSE Slice(s, 0, sp)
    IN  upto(Find(s, <<" ">>, 0))

\* The column name a character string spells (names are TLA+ strings).
Intern(s) ==
    CASE s = <<"P", "R", "I", "M", "A", "R", "Y">> -> "PRIMARY"
      [] s = <<"p", "r", "i", "m", "a", "r", "y">> -> "primary"
      [] s = <<"c", "o", "d", "e">> -> "code"
      [] s = <<>> -> ""
      [] OTHER -> "?"

(* --------------------------- record types ----------------------------- *)
\* dataclasses.Field with the metadata um_field() attaches.  datatype ""
\* and definition <<>> stand for "not given"; union says typing.get_args()
\* of the annotation is not empty.
Fld(name, goes, datatype, definition, lookup, pytype, union) ==
    [name |-> name, goes_to_db |-> goes, datatype |-> datatype,
     definition |-> definition, lookup_field |-> lookup,
     pytype |-> pytype, union |-> union]

\* pk: Any = None of UserBaseModel, inherited first by every user class.
PkField == Fld("pk", FALSE, "", EMPTY, FALSE, "Any", FALSE)

\* RowidUser of the tests, without its tel attribute (a UNIQUE int, which
\* UUIDUser keeps).
RowidUser ==
    [name |-> "RowidUser", without_rowid |-> FALSE, table_constraints |-> EMPTY,
     fields |-> << PkField,
                   Fld("name", TRUE, "TEXT", EMPTY, TRUE, "str", FALSE),
                   Fld("last_name", TRUE, "", EMPTY, FALSE, "str", FALSE) >>]

\* RowidAlias of the tests: id is an alias of the rowid.
RowidAlias ==
    [name |-> "RowidAlias", without_rowid |-> FALSE, table_constraints |-> EMPTY,
     fields |-> << PkField,
                   Fld("id", TRUE, "INTEGER", PRIMARY_KEY_ASC, FALSE, "int|None", TRUE),
                   Fld("name", TRUE, "TEXT", EMPTY, TRUE, "str", FALSE),
                   Fld("non_schema_field", FALSE, "", EMPTY, FALSE, "datetime", FALSE) >>]

\* UUIDUser of the tests, without its name attribute (a plain str, which
\* RowidUser.last_name is).
UUIDUser ==
    [name |-> "UUIDUser", without_rowid |-> TRUE, table_constraints |-> EMPTY,
     fields |-> << PkField,
                   Fld("uuid", TRUE, "", PRIMARY_KEY, FALSE, "UUID", FALSE),
                   Fld("tel", TRUE, "", UNIQUE, FALSE, "int", FALSE) >>]

\* A non-integer primary key on a table that keeps its rowid.
TextPk ==
    [name |-> "TextPk", without_rowid |-> FALSE, table_constraints |-> EMPTY,
     fields |-> << PkField,
                   Fld("code", TRUE, "TEXT", PRIMARY_KEY, FALSE, "str", FALSE),
                   Fld("name", TRUE, "TEXT", EMPTY, TRUE, "str", FALSE) >>]

\* The same columns declared WITHOUT ROWID.
TextPkWR ==
    [name |-> "TextPkWR", without_rowid |-> TRUE, table_constraints |-> EMPTY,
     fields |-> << PkField,
                   Fld("code", TRUE, "TEXT", PRIMARY_KEY, FALSE, "str", FALSE),
                   Fld("name", TRUE, "TEXT", EMPTY, TRUE, "str", FALSE) >>]

\* The columns of TextPk in the other order, with the primary key also
\* named by table_constraints().
BothPk ==
    [name |-> "BothPk", without_rowid |-> FALSE, table_constraints |-> PK_CODE,
     fields |-> << PkField,
                   Fld("name", TRUE, "TEXT", EMPTY, TRUE, "str", FALSE),
                   Fld("code", TRUE, "TEXT", PRIMARY_KEY, FALSE, "str", FALSE) >>]

\* The columns of RowidAlias with no constraint and another datatype.
Drift ==
    [name |-> "Drift", without_rowid |-> FALSE, table_constraints |-> EMPTY,
     fields |-> << PkField,
                   Fld("id", TRUE, "", EMPTY, FALSE, "int", FALSE),
                   Fld("name", TRUE, "TEXT", EMPTY, TRUE, "str", FALSE) >>]

\* A column whose default value is the text 'without rowid'.
Noted ==
    [name |-> "Noted", without_rowid |-> FALSE, table_constraints |-> EMPTY,
     fields |-> << PkField,
                   Fld("name", TRUE, "TEXT", EMPTY, TRUE, "str", FALSE),
                   Fld("note", TRUE, "TEXT", DEFAULT_WR, FALSE, "str", FALSE) >>]

\* The columns of TextPkWR, declared WITHOUT ROWID, with no primary key.
NoPkWR ==
    [name |-> "NoPkWR", without_rowid |-> TRUE, table_constraints |-> EMPTY,
     fields |-> << PkField,
                   Fld("code", TRUE, "TEXT", EMPTY, FALSE, "str", FALSE),
                   Fld("name", TRUE, "TEXT", EMPTY, TRUE, "str", FALSE) >>]

\* The classes a manager is built for, and the classes some table may
\* have been created for earlier (the store creates none for NoPkWR).
UserClasses == {RowidUser, RowidAlias, UUIDUser, TextPk, BothPk, Noted, NoPkWR}
TableClasses == (UserClasses \ {NoPkWR}) \cup {TextPkWR, Drift}

(* ------------------------- record descriptor -------------------------- *)
\* Results of functions that may raise: exc is NoExc or the exception.
Ok(v) == [exc |-> NoExc, val |-> v]
Raise(e) == [exc |-> e, val |-> <<>>]

\* The elements of s whose index is in keep, in the order of s.
RECURSIVE Pick(_, _, _)
Pick(s, keep, i) ==
    IF i > Len(s) THEN <<>>
    ELSE (IF i \in keep THEN <<s[i]>> ELSE <<>>) \o Pick(s, keep, i + 1)

_get_db_fields(cls) ==
    LET checked(db_fields) ==
            IF db_fields = <<>> THEN Raise("AttributeError: No database fields defined")
            ELSE Ok(db_fields)
    IN  checked(Pick(cls.fields,
                     {i \in 1..Len(cls.fields) : cls.fields[i].goes_to_db}, 1))

\* MarkedPk as it would be if it compared the definition as written.
MarkedPk_as_written(s) ==
    Pick(s, {i \in 1..Len(s) : /\ s[i].definition # EMPTY
                                /\ Contains(s[i].definition, primary_key)}, 1)

\* The names of the fields of s, a sequence of fields, marked primary key.
MarkedPk(s) ==
    Pick(s, {i \in 1..Len(s) : /\ s[i].definition # EMPTY
                                /\ Contains(Lower(s[i].definition), primary_key)}, 1)

pk_column(cls) ==
    LET resolve(found, pk_definition, dbf, marked) ==
            IF found /\ Contains(pk_definition, <<",">>)
              THEN Raise("ValueError: Multiple column primary keys are not supported yet")
            ELSE IF dbf.exc # NoExc THEN dbf
            ELSE IF (found /\ Len(marked) >= 1) \/ Len(marked) >= 2
              THEN Raise("AttributeError: You can't define multiple primary keys")
            ELSE IF ~found /\ marked = <<>> /\ cls.without_rowid
              THEN Raise("AttributeError: No primary key defined among user class attributes")
            ELSE IF marked # <<>> THEN Ok(marked[1].name)
            ELSE IF found THEN Ok(Intern(FirstWord(pk_definition)))
            ELSE Ok("rowid")
        slice(constraints, start, dbf) ==
            resolve(start + 1 # 0,
                    IF start + 1 # 0
                      THEN Slice(cls.table_constraints, start,
                                 Find(constraints, <<")">>, start))
                      ELSE <<>>,
                    dbf, MarkedPk(dbf.val))
        find(constraints) ==
            slice(constraints, Find(constraints, primary_key, 0), _get_db_fields(cls))
    IN  find(Lower(cls.table_constraints))

lookup_field(cls) ==
    LET first(dbf, lk) ==
            IF dbf.exc # NoExc THEN dbf
            ELSE IF lk # <<>> THEN Ok(lk[1].name)
            ELSE pk_column(cls)
        marked(dbf) ==
            first(dbf, Pick(dbf.val, {i \in 1..Len(dbf.val) : dbf.val[i].lookup_field}, 1))
    IN  marked(_get_db_fields(cls))

get_datatype(f) ==
    IF f.datatype # "" THEN Ok(f.datatype)
    ELSE IF f.union
      THEN Raise("TypeError: union type needs the datatype argument")
    ELSE Ok(f.pytype)

schema(cls) ==
    LET columns(dbf, bad) ==
            IF dbf.exc # NoExc THEN dbf
            ELSE IF bad # {}
              THEN get_datatype(dbf.val[CHOOSE i \in bad : \A j \in bad : i <= j])
            ELSE Ok([i \in 1..Len(dbf.val) |->
                        [name |-> dbf.val[i].name,
                         datatype |-> get_datatype(dbf.val[i]).val,
                         definition |-> dbf.val[i].definition]])
        typed(dbf) ==
            columns(dbf, {i \in 1..Len(dbf.val) : get_datatype(dbf.val[i]).exc # NoExc})
    IN  typed(_get_db_fields(cls))

\* select_keys as it would be if it did not list the primary-key field again.
select_keys_once(cls) ==
    LET keys(pk, dbf) ==
            IF pk.exc # NoExc THEN pk
            ELSE Ok(<< [col |-> pk.val, as |-> "pk"] >>
                    \o Pick([i \in 1..Len(dbf.val) |-> [col |-> dbf.val[i].name, as |-> ""]],
                            {i \in 1..Len(dbf.val) : dbf.val[i].name # pk.val}, 1))
    IN  keys(pk_column(cls), _get_db_fields(cls))

\* 'c AS pk' is [col |-> c, as |-> "pk"]; a plain column has as = "".
select_keys(cls) ==
    LET keys(pk, dbf) ==
            IF pk.exc # NoExc THEN pk
            ELSE Ok(<< [col |-> pk.val, as |-> "pk"] >>
                    \o [i \in 1..Len(dbf.val) |-> [col |-> dbf.val[i].name, as |-> ""]])
    IN  keys(pk_column(cls), _get_db_fields(cls))

\* getattr(user, name)
GetAttr(user, name) == user[name]

\* setattr(user, name, v): a dataclass instance takes new attributes too.
SetAttr(user, name, v) ==
    [a \in DOMAIN user \cup {name} |-> IF a = name THEN v ELSE user[a]]

insert_keys_and_values(cls, user) ==
    LET pairs(dbf) ==
            IF dbf.exc # NoExc THEN dbf
            ELSE Ok([keys |-> [i \in 1..Len(dbf.val) |-> dbf.val[i].name],
                     values |-> [i \in 1..Len(dbf.val) |-> GetAttr(user, dbf.val[i].name)]])
    IN  pairs(_get_db_fields(cls))

\* update_pairs as it would be if it skipped the primary-key column.
update_pairs_without_pk(cls, user) ==
    LET pairs(dbf, kept) ==
            IF dbf.exc # NoExc THEN dbf
            ELSE Ok([keys |-> [i \in 1..Len(kept) |-> kept[i].name],
                     values |-> [i \in 1..Len(kept) |-> GetAttr(user, kept[i].name)]])
        keep(dbf, pkc) ==
            pairs(dbf, Pick(dbf.val, {i \in 1..Len(dbf.val) : dbf.val[i].name # pkc.val}, 1))
    IN  keep(_get_db_fields(cls), pk_column(cls))

\* keys[i] stands for the text '<keys[i]> = ?'.
update_pairs(cls, user) ==
    LET pairs(dbf) ==
            IF dbf.exc # NoExc THEN dbf
            ELSE Ok([keys |-> [i \in 1..Len(dbf.val) |-> dbf.val[i].name],
                     values |-> [i \in 1..Len(dbf.val) |-> GetAttr(user, dbf.val[i].name)]])
    IN  pairs(_get_db_fields(cls))

\* The class-level facts, computed once per class and looked up by the
\* class's name.
AllClasses ==
    {RowidUser, RowidAlias, UUIDUser, TextPk, TextPkWR, BothPk, Drift, Noted, NoPkWR}
PkColumn ==
    [RowidUser |-> pk_column(RowidUser),
     RowidAlias |-> pk_column(RowidAlias),
     UUIDUser |-> pk_column(UUIDUser),
     TextPk |-> pk_column(TextPk),
     TextPkWR |-> pk_column(TextPkWR),
     BothPk |-> pk_column(BothPk),
     Drift |-> pk_column(Drift),
     Noted |-> pk_column(Noted),
     NoPkWR |-> pk_column(NoPkWR)]
LookupField ==
    [RowidUser |-> lookup_field(RowidUser),
     RowidAlias |-> lookup_field(RowidAlias),
     UUIDUser |-> lookup_field(UUIDUser),
     TextPk |-> lookup_field(TextPk),
     TextPkWR |-> lookup_field(TextPkWR),
     BothPk |-> lookup_field(BothPk),
     Drift |-> lookup_field(Drift),
     Noted |-> lookup_field(Noted),
     NoPkWR |-> lookup_field(NoPkWR)]
Schema ==
    [RowidUser |-> schema(RowidUser),
     RowidAlias |-> schema(RowidAlias),
     UUIDUser |-> schema(UUIDUser),
     TextPk |-> schema(TextPk),
     TextPkWR |-> schema(TextPkWR),
     BothPk |-> schema(BothPk),
     Drift |-> schema(Drift),
     Noted |-> schema(Noted),
     NoPkWR |-> schema(NoPkWR)]
SelectKeys ==
    [RowidUser |-> select_keys(RowidUser),
     RowidAlias |-> select_keys(RowidAlias),
     UUIDUser |-> select_keys(UUIDUser),
     TextPk |-> select_keys(TextPk),
     TextPkWR |-> select_keys(TextPkWR),
     BothPk |-> select_keys(BothPk),
     Drift |-> select_keys(Drift),
     Noted |-> select_keys(Noted),
     NoPkWR |-> select_keys(NoPkWR)]
DbFields ==
    [RowidUser |-> _get_db_fields(RowidUser),
     RowidAlias |-> _get_db_fields(RowidAlias),
     UUIDUser |-> _get_db_fields(UUIDUser),
     TextPk |-> _get_db_fields(TextPk),
     TextPkWR |-> _get_db_fields(TextPkWR),
     BothPk |-> _get_db_fields(BothPk),
     Drift |-> _get_db_fields(Drift),
     Noted |-> _get_db_fields(Noted),
     NoPkWR |-> _get_db_fields(NoPkWR)]

(* ------------------------------ engine -------------------------------- *)
\* The SQLite table named table_name: whether it exists, the CREATE TABLE
\* statement stored for it (columns and the WITHOUT ROWID suffix).
NoTable == [exists |-> FALSE, wr |-> FALSE, cols |-> <<>>]

\* Column affinity of a declared type (sqlite.org/datatype3.html, 3.1).
Affinity(datatype) ==
    CASE datatype \in {"INTEGER", "int"} -> "INTEGER"
      [] datatype \in {"TEXT"} -> "TEXT"
      [] OTHER -> "NUMERIC"

\* The value a column of affinity aff stores, or compares with, for v.
Coerce(aff, v) ==
    CASE aff \in {"INTEGER", "NUMERIC"} /\ v.k = "numstr" -> IntV(v.n)
      [] aff = "TEXT" /\ v.k = "int" -> NumStr(v.n)
      [] OTHER -> v

\* sqlite3 adapters registered by register_types(): UUID -> str.
Adapt(v) == IF v.k = "uuid" THEN UuidStr(v.n) ELSE v

\* sqlite3 converters (PARSE_DECLTYPES): column type 'uuid' -> UUID.
Convert(hooks, datatype, v) ==
    IF hooks /\ datatype = "UUID" /\ v.k = "uuidstr" THEN UuidV(v.n) ELSE v

ColNames(t) == {t.cols[i].name : i \in 1..Len(t.cols)}
Col(t, name) == t.cols[CHOOSE i \in 1..Len(t.cols) : t.cols[i].name = name]
\* What the engine keeps of a column definition when it parses CREATE
\* TABLE: the declared type's affinity, PRIMARY KEY, UNIQUE, and the text
\* 'without rowid' if the definition happens to hold it.
ParseCol(col) ==
    [name |-> col.name, datatype |-> col.datatype, definition |-> col.definition,
     affinity |-> Affinity(col.datatype),
     pk |-> Contains(Lower(col.definition), primary_key),
     unique |-> Contains(Lower(col.definition), unique_kw),
     wrtext |-> Contains(Lower(col.definition), without_rowid_kw)]
IsPkCol(col) == col.pk
IsUniqueCol(col) == col.pk \/ col.unique
\* INTEGER PRIMARY KEY of a rowid table is an alias of the rowid.
IsAlias(t, col) == ~t.wr /\ col.datatype = "INTEGER" /\ col.pk
AliasCols(t) == {c \in ColNames(t) : IsAlias(t, Col(t, c))}

MaxOf(S) == IF S = {} THEN 0 ELSE CHOOSE m \in S : \A x \in S : x <= m

\* Order of values in an index (NULL, then numbers, then text).
Rank(v) ==
    CASE v.k = "null" -> 0
      [] v.k = "int" -> v.n
      [] v.k = "numstr" -> 100 + v.n
      [] v.k = "uuidstr" -> 200 + v.n
      [] OTHER -> 300 + v.n

\* CREATE TABLE IF NOT EXISTS: the table after the statement, or the error.
EngCreate(t, stmt) ==
    LET create(parsed, pks) ==
            IF t.exists THEN Ok(t)
            ELSE IF Cardinality(pks) > 1
              THEN Raise("OperationalError: table has more than one primary key")
            ELSE IF stmt.wr /\ pks = {}
              THEN Raise("OperationalError: PRIMARY KEY missing on table")
            ELSE Ok([exists |-> TRUE, wr |-> stmt.wr, cols |-> parsed])
        keyed(parsed) == create(parsed, {i \in 1..Len(parsed) : parsed[i].pk})
    IN  keyed([i \in 1..Len(stmt.cols) |-> ParseCol(stmt.cols[i])])

\* A UNIQUE or PRIMARY KEY column holds each non-NULL value once; the
\* primary key of a WITHOUT ROWID table is NOT NULL; rowids are distinct.
ConstraintError(t, rs) ==
    IF \E r \in rs : \E c \in ColNames(t) :
           t.wr /\ IsPkCol(Col(t, c)) /\ r.vals[c] = NULL
      THEN "IntegrityError: NOT NULL constraint failed"
    ELSE IF \/ \E r1, r2 \in rs : r1 # r2 /\ ~t.wr /\ r1.rowid = r2.rowid
            \/ \E r1, r2 \in rs : \E c \in ColNames(t) :
                   /\ r1 # r2 /\ IsUniqueCol(Col(t, c))
                   /\ r1.vals[c] # NULL /\ r1.vals[c] = r2.vals[c]
      THEN "IntegrityError: UNIQUE constraint failed"
    ELSE NoExc

\* The row stored for the bound values vals (by column name) and the rowid
\* it gets: the alias column's integer when given, else max(rowid) + 1.
StoreRow(t, rs, vals, oldrowid) ==
    LET store(co, al, fresh) ==
            LET a == CHOOSE c \in al : TRUE
            IN  IF t.wr THEN Ok([rowid |-> 0, vals |-> co])
                ELSE IF al = {} THEN Ok([rowid |-> fresh, vals |-> co])
                ELSE IF co[a].k = "int" THEN Ok([rowid |-> co[a].n, vals |-> co])
                ELSE IF co[a] = NULL /\ oldrowid = 0
                  THEN Ok([rowid |-> fresh, vals |-> [co EXCEPT ![a] = IntV(fresh)]])
                ELSE Raise("IntegrityError: datatype mismatch")
    IN  store([c \in ColNames(t) |-> Coerce(Col(t, c).affinity, Adapt(vals[c]))],
              AliasCols(t),
              IF oldrowid # 0 THEN oldrowid ELSE MaxOf({r.rowid : r \in rs}) + 1)

\* INSERT INTO t(keys) VALUES (values): rows after it and lastrowid.
EngInsert(t, rs, keys, values) ==
    LET insert(given, row, err) ==
            IF ~(given \subseteq ColNames(t)) THEN Raise("OperationalError: no such column")
            ELSE IF row.exc # NoExc THEN row
            ELSE IF row.val \in rs \/ err # NoExc
              THEN Raise(IF err # NoExc THEN err
                         ELSE "IntegrityError: UNIQUE constraint failed")
            ELSE Ok([rows |-> rs \cup {row.val}, lastrowid |-> row.val.rowid])
        check(given, row) == insert(given, row, ConstraintError(t, rs \cup {row.val}))
        bind(given) ==
            check(given,
                  StoreRow(t, rs,
                           [c \in ColNames(t) |->
                               IF c \in given
                                 THEN values[CHOOSE i \in 1..Len(keys) : keys[i] = c]
                                 ELSE NULL],
                           0))
    IN  bind({keys[i] : i \in 1..Len(keys)})

\* Whether column col of row r equals the bound parameter v (col = ?).
Matches(t, r, col, v) ==
    IF col = "rowid" /\ "rowid" \notin ColNames(t)
      THEN Coerce("INTEGER", Adapt(v)) = IntV(r.rowid)
      ELSE /\ r.vals[col] # NULL
           /\ r.vals[col] = Coerce(Col(t, col).affinity, Adapt(v))

\* Columns a statement may name.
Known(t, col) == col \in ColNames(t) \/ (col = "rowid" /\ ~t.wr)

\* The value of column col of row r.
ColValue(t, r, col) == IF col \in ColNames(t) THEN r.vals[col] ELSE IntV(r.rowid)

\* The key a full scan is ordered by: the rowid, or the primary key of a
\* WITHOUT ROWID table.
ScanKey(t, r) ==
    IF ~t.wr THEN r.rowid
    ELSE Rank(r.vals[CHOOSE c \in ColNames(t) : IsPkCol(Col(t, c))])

RECURSIVE Sorted(_, _)
Sorted(t, rs) ==
    IF rs = {} THEN <<>>
    ELSE LET r == CHOOSE x \in rs : \A y \in rs : ScanKey(t, x) <= ScanKey(t, y)
         IN  <<r>> \o Sorted(t, rs \ {r})

\* Where as it would be if and_or = 0 joined the terms by OR, and 1 by AND.
Where_swapped(t, rs, kwargs, and_or) ==
    IF DOMAIN kwargs = {} THEN rs
    ELSE IF and_or = 1
      THEN {r \in rs : \A c \in DOMAIN kwargs : Matches(t, r, c, kwargs[c])}
      ELSE {r \in rs : \E c \in DOMAIN kwargs : Matches(t, r, c, kwargs[c])}

\* The rows a WHERE clause of col = ? terms joined by AND (and_or = 0) or
\* OR (and_or = 1) keeps; no term keeps every row.
Where(t, rs, kwargs, and_or) ==
    IF DOMAIN kwargs = {} THEN rs
    ELSE IF and_or = 0
      THEN {r \in rs : \A c \in DOMAIN kwargs : Matches(t, r, c, kwargs[c])}
      ELSE {r \in rs : \E c \in DOMAIN kwargs : Matches(t, r, c, kwargs[c])}

\* SELECT keys FROM t WHERE ...: sqlite3.Row objects in scan order.
EngSelect(t, rs, hooks, keys, kwargs, and_or) ==
    LET cols == {keys[i].col : i \in 1..Len(keys)} \cup DOMAIN kwargs
        out(r) == [i \in 1..Len(keys) |->
                      [key |-> IF keys[i].as # "" THEN keys[i].as ELSE keys[i].col,
                       val |-> IF keys[i].col \in ColNames(t)
                                 THEN Convert(hooks, Col(t, keys[i].col).datatype,
                                              r.vals[keys[i].col])
                                 ELSE IntV(r.rowid)]]
        fetch(hit) ==
            IF \E c \in cols : ~Known(t, c) THEN Raise("OperationalError: no such column")
            ELSE Ok([i \in 1..Len(hit) |-> out(hit[i])])
    IN  fetch(Sorted(t, Where(t, rs, kwargs, and_or)))

\* DELETE FROM t WHERE col = ?
EngDelete(t, rs, col, v) ==
    IF ~Known(t, col) THEN Raise("OperationalError: no such column")
    ELSE Ok({r \in rs : ~Matches(t, r, col, v)})

\* UPDATE t SET keys = values WHERE col = ?
EngUpdate(t, rs, keys, values, col, v) ==
    LET update(given, new, after, err) ==
            IF ~Known(t, col) \/ ~(given \subseteq ColNames(t))
              THEN Raise("OperationalError: no such column")
            ELSE IF \E r \in DOMAIN new : new[r].exc # NoExc
              THEN Raise("IntegrityError: datatype mismatch")
            ELSE IF err # NoExc \/ Cardinality(after) # Cardinality(rs)
              THEN Raise(IF err # NoExc THEN err
                         ELSE "IntegrityError: UNIQUE constraint failed")
            ELSE Ok(after)
        check(given, new, after) == update(given, new, after, ConstraintError(t, after))
        replace(given, new) ==
            check(given, new, (rs \ DOMAIN new) \cup {new[r].val : r \in DOMAIN new})
        \* new[r]: the row that takes the place of the matching row r.
        bind(given) ==
            replace(given,
                    [r \in {x \in rs : Known(t, col) /\ Matches(t, x, col, v)} |->
                        StoreRow(t, rs,
                                 [c \in ColNames(t) |->
                                     IF c \in given
                                       THEN values[CHOOSE i \in 1..Len(keys) : keys[i] = c]
                                       ELSE r.vals[c]],
                                 r.rowid)])
    IN  bind({keys[i] : i \in 1..Len(keys)})

(* --------------------------- callers' inputs -------------------------- *)
Other == [k |-> "other", n |-> 0]

\* Values a caller gives an attribute of the annotated type.
FieldDom(f) ==
    CASE f.pytype = "str" -> {Word(1), NumStr(1)}
      [] f.pytype = "int" -> {IntV(i) : i \in 1..MaxInt}
      [] f.pytype = "int|None" -> {NULL} \cup {IntV(i) : i \in 1..MaxInt}
      [] f.pytype = "UUID" -> {UuidV(i) : i \in 1..MaxInt}
      [] f.pytype = "Any" -> {NULL}
      [] OTHER -> {Other}

RECURSIVE Instances(_)
Instances(fs) ==
    IF fs = <<>> THEN {<<>>}
    ELSE {(Head(fs).name :> v) @@ u : v \in FieldDom(Head(fs)), u \in Instances(Tail(fs))}

\* The instances of each user class a caller builds (pk is None).
NewUsers ==
    [RowidUser |-> Instances(RowidUser.fields),
     RowidAlias |-> Instances(RowidAlias.fields),
     UUIDUser |-> Instances(UUIDUser.fields),
     TextPk |-> Instances(TextPk.fields),
     TextPkWR |-> Instances(TextPkWR.fields),
     BothPk |-> Instances(BothPk.fields),
     Drift |-> Instances(Drift.fields),
     Noted |-> Instances(Noted.fields),
     NoPkWR |-> Instances(NoPkWR.fields)]

\* The caller registers the UUID adapter and converter for a class that
\* has a UUID attribute.
Hooks(cls) == \E i \in 1..Len(cls.fields) : cls.fields[i].pytype = "UUID"

\* Keys a caller asks for.
PkArgs(cls) ==
    {IntV(i) : i \in 1..MaxRowid} \cup {NumStr(1), Word(1)}
    \cup (IF Hooks(cls) THEN {UuidV(i) : i \in 1..MaxInt} ELSE {})

(* ------------------------------- state -------------------------------- *)
VARIABLES
    um,       \* "uninit", "ready" or "failed": the manager's construction
    user_class, \* user_class of the manager
    table,    \* the table's stored definition
    rows,     \* the table's committed rows
    handles,  \* connections opened by the manager and not closed
    last      \* the last operation: its outcome and what its handle did

vars == <<um, user_class, table, rows, handles, last>>

NoRes == [tag |-> "raised", val |-> <<>>]
PyNone == [tag |-> "None", val |-> <<>>]

Outcome(op, exc, res, user, opened, issued, matched, committed, closed, set) ==
    [op |-> op, exc |-> exc, res |-> IF exc = NoExc THEN res ELSE NoRes,
     user |-> user, opened |-> opened, issued |-> issued, matched |-> matched,
     committed |-> committed, closed |-> closed, set |-> set]

\* A table some earlier program created for user class c.
TableFor(c) == EngCreate(NoTable, [cols |-> Schema[c.name].val, wr |-> c.without_rowid]).val

Init ==
    /\ um = "uninit"
    /\ user_class = RowidUser
    /\ table \in {NoTable} \cup {TableFor(c) : c \in TableClasses}
    /\ rows = {}
    /\ handles = 0
    /\ last = Outcome("none", NoExc, PyNone, <<>>, FALSE, 0, 0, FALSE, FALSE, <<>>)

(* ------------------------------ manager ------------------------------- *)
\* with self._db_connection() as db: <body>.  body is what the block did:
\* its exception, the rows and table after its statements, how many
\* INSERT/UPDATE/DELETE statements it ran.  commit_fails is the store
\* refusing the commit, which needs an open transaction.
_db_connection(op, body, commit_fails) ==
    LET committed == ~commit_fails
        closed == ~commit_fails
    IN  /\ commit_fails => handles < MaxLeaked /\ body.issued > 0
        /\ rows' = IF committed THEN body.rows ELSE rows
        /\ table' = body.table
        /\ handles' = IF closed THEN handles ELSE handles + 1
        /\ last' = Outcome(op,
                           IF commit_fails THEN "OperationalError: commit" ELSE body.exc,
                           body.res, body.user, TRUE, body.issued, body.matched,
                           committed, closed, body.set)

\* An operation that raised before it opened a connection.
NoConnection(op, exc, user) ==
    /\ UNCHANGED <<rows, table, handles>>
    /\ last' = Outcome(op, exc, NoRes, user, FALSE, 0, 0, FALSE, FALSE, <<>>)

Body(exc, rs, t, issued, matched, res, user) ==
    [exc |-> exc, rows |-> rs, table |-> t, issued |-> issued, matched |-> matched,
     res |-> res, user |-> user, set |-> <<>>]

make_schema_statement(c) ==
    LET statement(s) ==
            IF s.exc # NoExc THEN s ELSE Ok([cols |-> s.val, wr |-> c.without_rowid])
    IN  statement(Schema[c.name])

\* 'without rowid' in the stored CREATE TABLE text, lower-cased.
StoredWithoutRowid(t) ==
    t.wr \/ \E i \in 1..Len(t.cols) : t.cols[i].wrtext

validate_schema(t, c) ==
    LET names(s) == {s[i].name : i \in 1..Len(s)}
        without_rowid == StoredWithoutRowid(t)
        column_names == ColNames(t)
        estimated_column_names == names(Schema[c.name].val)
    IN  without_rowid = c.without_rowid /\ column_names = estimated_column_names

prepare_db(c, t) ==
    LET validated(cr) ==
            IF cr.exc # NoExc THEN Body(cr.exc, rows, t, 0, 0, PyNone, <<>>)
            ELSE IF ~validate_schema(cr.val, c)
              THEN Body("IntegrityError: User class schema differs from the existed one in db",
                        rows, cr.val, 0, 0, PyNone, <<>>)
            ELSE Body(NoExc, rows, cr.val, 0, 0, PyNone, <<>>)
    IN  validated(EngCreate(t, make_schema_statement(c).val))

\* SQLiteUserManager(user_class = c, ...)
Construct(c) ==
    /\ um = "uninit"
    /\ user_class' = c
    /\ LET init(stmt, body) ==
                IF stmt.exc # NoExc
                  THEN /\ NoConnection("construct", stmt.exc, <<>>)
                       /\ um' = "failed"
                  ELSE /\ _db_connection("construct", body, FALSE)
                       /\ um' = IF body.exc = NoExc THEN "ready" ELSE "failed"
       IN  init(make_schema_statement(c), prepare_db(c, table))

\* add_user as it would be without the setattr of the primary-key column.
add_user_body_no_setattr(c, t, rs, user) ==
    LET added(after, u) == Body(NoExc, after, t, 1, 1, [tag |-> "user", val |-> u], u)
        set_pk(ins) ==
            IF ins.exc # NoExc THEN Body(ins.exc, rs, t, 0, 0, NoRes, user)
            ELSE added(ins.val.rows, SetAttr(user, "pk", IntV(ins.val.lastrowid)))
        insert(kv) == set_pk(EngInsert(t, rs, kv.keys, kv.values))
    IN  insert(insert_keys_and_values(c, user).val)

\* The with block of add_user.
add_user_body(c, t, rs, user) ==
    LET added(after, u) == Body(NoExc, after, t, 1, 1, [tag |-> "user", val |-> u], u)
        failed(after, exc, u) == Body(exc, after, t, 1, 1, NoRes, u)
        set_rowid(after, pkc, lastrowid, u1) ==
            IF pkc.exc # NoExc THEN failed(after, pkc.exc, u1)
            ELSE added(after,
                       IF pkc.val # "rowid" THEN SetAttr(u1, pkc.val, lastrowid) ELSE u1)
        set_pk(ins, pkc) ==
            IF ins.exc # NoExc THEN Body(ins.exc, rs, t, 0, 0, NoRes, user)
            ELSE IF c.without_rowid
              THEN IF pkc.exc # NoExc THEN failed(ins.val.rows, pkc.exc, user)
                   ELSE IF pkc.val \notin DOMAIN user
                     THEN failed(ins.val.rows, "AttributeError: no such attribute", user)
                   ELSE added(ins.val.rows, SetAttr(user, "pk", GetAttr(user, pkc.val)))
            ELSE set_rowid(ins.val.rows, pkc, IntV(ins.val.lastrowid),
                           SetAttr(user, "pk", IntV(ins.val.lastrowid)))
        insert(kv) == set_pk(EngInsert(t, rs, kv.keys, kv.values), PkColumn[c.name])
    IN  insert(insert_keys_and_values(c, user).val)

add_user(user, commit_fails) ==
    /\ um = "ready"
    /\ UNCHANGED <<um, user_class>>
    /\ LET add(kv, body) ==
                IF kv.exc # NoExc THEN NoConnection("add", kv.exc, user)
                ELSE /\ Cardinality(body.rows) <= MaxRows
                     /\ \A r \in body.rows : r.rowid <= MaxRowid
                     /\ _db_connection("add", body, commit_fails)
       IN  add(insert_keys_and_values(user_class, user),
               add_user_body(user_class, table, rows, user))

\* The record user_class builds from a sqlite3.Row ud (keyword arguments).
FromRow(c, ud) ==
    [a \in {c.fields[i].name : i \in 1..Len(c.fields)} |->
        IF \E j \in 1..Len(ud) : ud[j].key = a
          THEN ud[CHOOSE j \in 1..Len(ud) : ud[j].key = a].val
          ELSE IF a = "pk" THEN NULL ELSE Other]

\* get_users_by as it would be if it listed the rows fetched last to first.
get_users_by_reversed(c, t, rs, and_or, kwargs) ==
    LET users(fields_to_query, sel) ==
            IF fields_to_query.exc # NoExc
              THEN [exc |-> fields_to_query.exc, val |-> <<>>, opened |-> FALSE]
            ELSE IF sel.exc # NoExc THEN [exc |-> sel.exc, val |-> <<>>, opened |-> TRUE]
            ELSE [exc |-> NoExc, opened |-> TRUE,
                  val |-> [i \in 1..Len(sel.val) |->
                              FromRow(c, sel.val[Len(sel.val) + 1 - i])]]
        select(fields_to_query) ==
            users(fields_to_query,
                  EngSelect(t, rs, Hooks(c), fields_to_query.val, kwargs, and_or))
    IN  select(SelectKeys[c.name])

\* get_users_by(and_or, **kwargs) on table t with rows rs: the exception
\* or the list, and whether a connection was opened.
get_users_by(c, t, rs, and_or, kwargs) ==
    LET users(fields_to_query, sel) ==
            IF fields_to_query.exc # NoExc
              THEN [exc |-> fields_to_query.exc, val |-> <<>>, opened |-> FALSE]
            ELSE IF sel.exc # NoExc THEN [exc |-> sel.exc, val |-> <<>>, opened |-> TRUE]
            ELSE [exc |-> NoExc, opened |-> TRUE,
                  val |-> [i \in 1..Len(sel.val) |-> FromRow(c, sel.val[i])]]
        select(fields_to_query) ==
            users(fields_to_query,
                  EngSelect(t, rs, Hooks(c), fields_to_query.val, kwargs, and_or))
    IN  select(SelectKeys[c.name])

\* get as it would be if it returned None, not the default, on no match.
get_none_on_miss(c, t, rs, lookup, default) ==
    LET one(lf, users) ==
            IF lf.exc # NoExc THEN [exc |-> lf.exc, res |-> NoRes, opened |-> FALSE]
            ELSE IF users.exc # NoExc
              THEN [exc |-> users.exc, res |-> NoRes, opened |-> users.opened]
            ELSE IF users.val = <<>>
              THEN [exc |-> NoExc, res |-> PyNone, opened |-> TRUE]
            ELSE IF Len(users.val) > 1
              THEN [exc |-> "UserClassAttributeError: Defined lookup field is not unique",
                    res |-> NoRes, opened |-> TRUE]
            ELSE [exc |-> NoExc, res |-> [tag |-> "user", val |-> users.val[1]],
                  opened |-> TRUE]
        query(lf) == one(lf, get_users_by(c, t, rs, 0, (lf.val :> lookup)))
    IN  query(LookupField[c.name])

get(c, t, rs, lookup, default) ==
    LET one(lf, users) ==
            IF lf.exc # NoExc THEN [exc |-> lf.exc, res |-> NoRes, opened |-> FALSE]
            ELSE IF users.exc # NoExc
              THEN [exc |-> users.exc, res |-> NoRes, opened |-> users.opened]
            ELSE IF users.val = <<>>
              THEN [exc |-> NoExc, res |-> [tag |-> "default", val |-> default], opened |-> TRUE]
            ELSE IF Len(users.val) > 1
              THEN [exc |-> "UserClassAttributeError: Defined lookup field is not unique",
                    res |-> NoRes, opened |-> TRUE]
            ELSE [exc |-> NoExc, res |-> [tag |-> "user", val |-> users.val[1]],
                  opened |-> TRUE]
        query(lf) == one(lf, get_users_by(c, t, rs, 0, (lf.val :> lookup)))
    IN  query(LookupField[c.name])

\* get_user_by_pk as it would be without the len(users) > 1 check.
get_user_by_pk_first(c, t, rs, pk) ==
    LET one(pkc, users) ==
            IF pkc.exc # NoExc THEN [exc |-> pkc.exc, res |-> NoRes, opened |-> FALSE]
            ELSE IF users.exc # NoExc
              THEN [exc |-> users.exc, res |-> NoRes, opened |-> users.opened]
            ELSE IF users.val = <<>>
              THEN [exc |-> NoExc, res |-> PyNone, opened |-> TRUE]
            ELSE [exc |-> NoExc, res |-> [tag |-> "user", val |-> users.val[1]],
                  opened |-> TRUE]
        query(pkc) == one(pkc, get_users_by(c, t, rs, 0, (pkc.val :> pk)))
    IN  query(PkColumn[c.name])

get_user_by_pk(c, t, rs, pk) ==
    LET one(pkc, users) ==
            IF pkc.exc # NoExc THEN [exc |-> pkc.exc, res |-> NoRes, opened |-> FALSE]
            ELSE IF users.exc # NoExc
              THEN [exc |-> users.exc, res |-> NoRes, opened |-> users.opened]
            ELSE IF users.val = <<>>
              THEN [exc |-> NoExc, res |-> PyNone, opened |-> TRUE]
            ELSE IF Len(users.val) > 1
              THEN [exc |-> "UserClassAttributeError: Defined pk column is not unique",
                    res |-> NoRes, opened |-> TRUE]
            ELSE [exc |-> NoExc, res |-> [tag |-> "user", val |-> users.val[1]],
                  opened |-> TRUE]
        query(pkc) == one(pkc, get_users_by(c, t, rs, 0, (pkc.val :> pk)))
    IN  query(PkColumn[c.name])

\* A read: the connection commits nothing and is closed.
ReadOutcome(op, r) ==
    /\ um = "ready"
    /\ UNCHANGED <<um, user_class, rows, table, handles>>
    /\ last' = Outcome(op, r.exc, r.res, <<>>, r.opened, 0, 0, r.opened, r.opened, <<>>)

Get(lookup, default) ==
    ReadOutcome("get", get(user_class, table, rows, lookup, default))

GetUserByPk(pk) ==
    ReadOutcome("get_user_by_pk", get_user_by_pk(user_class, table, rows, pk))

\* The list a read returns.
ListOf(r) == [exc |-> r.exc, opened |-> r.opened, res |-> [tag |-> "list", val |-> r.val]]

GetUsersBy(and_or, kwargs) ==
    ReadOutcome("get_users_by",
                ListOf(get_users_by(user_class, table, rows, and_or, kwargs)))

get_all_users ==
    ReadOutcome("get_all_users", ListOf(get_users_by(user_class, table, rows, 0, <<>>)))

\* delete_user as it would be if it filtered on the lookup field.
delete_user_body_by_lookup(c, t, rs, pk) ==
    LET deleted(lf, del) ==
            IF lf.exc # NoExc THEN Body(lf.exc, rs, t, 0, 0, NoRes, <<>>)
            ELSE IF del.exc # NoExc THEN Body(del.exc, rs, t, 0, 0, NoRes, <<>>)
            ELSE Body(NoExc, del.val, t, 1, Cardinality(rs \ del.val), PyNone, <<>>)
        delete(lf) == deleted(lf, EngDelete(t, rs, lf.val, pk))
    IN  delete(LookupField[c.name])

delete_user_body(c, t, rs, pk) ==
    LET deleted(pkc, del) ==
            IF pkc.exc # NoExc THEN Body(pkc.exc, rs, t, 0, 0, NoRes, <<>>)
            ELSE IF del.exc # NoExc THEN Body(del.exc, rs, t, 0, 0, NoRes, <<>>)
            ELSE Body(NoExc, del.val, t, 1, Cardinality(rs \ del.val), PyNone, <<>>)
        delete(pkc) == deleted(pkc, EngDelete(t, rs, pkc.val, pk))
    IN  delete(PkColumn[c.name])

delete_user(pk, commit_fails) ==
    /\ um = "ready"
    /\ UNCHANGED <<um, user_class>>
    /\ _db_connection("delete", delete_user_body(user_class, table, rows, pk), commit_fails)

update_user_body(c, t, rs, user) ==
    LET updated(up, pkc, upd) ==
            IF pkc.exc # NoExc THEN Body(pkc.exc, rs, t, 0, 0, NoRes, <<>>)
            ELSE IF upd.exc # NoExc
              THEN [Body(upd.exc, rs, t, 0, 0, NoRes, <<>>) EXCEPT !.set = up.keys]
            ELSE [Body(NoExc, upd.val, t, 1,
                       Cardinality({r \in rs : Matches(t, r, pkc.val, GetAttr(user, "pk"))}),
                       PyNone, <<>>)
                     EXCEPT !.set = up.keys]
        update(up, pkc) ==
            updated(up, pkc,
                    EngUpdate(t, rs, up.keys, up.values, pkc.val, GetAttr(user, "pk")))
    IN  update(update_pairs(c, user).val, PkColumn[c.name])

update_user(user, commit_fails) ==
    /\ um = "ready"
    /\ UNCHANGED <<um, user_class>>
    /\ LET update(up, body) ==
                IF up.exc # NoExc THEN NoConnection("update", up.exc, <<>>)
                ELSE /\ \A r \in body.rows : r.rowid <= MaxRowid
                     /\ _db_connection("update", body, commit_fails)
       IN  update(update_pairs(user_class, user),
                  update_user_body(user_class, table, rows, user))

\* A connection left open is closed, if at all, when the interpreter
\* reclaims it; its open transaction is rolled back.
Reclaim ==
    /\ handles > 0
    /\ handles' = handles - 1
    /\ UNCHANGED <<um, user_class, table, rows, last>>

\* Filters of get_users_by: no column, one or two, each with a value.
Filters(c) ==
    LET upto2(one) == {<<>>} \cup one \cup {f @@ g : f \in one, g \in one}
        terms(dbf) ==
            upto2(UNION {{(dbf[i].name :> v) : v \in FieldDom(dbf[i])} : i \in 1..Len(dbf)})
    IN  terms(DbFields[c.name].val)

KwargsOf ==
    [RowidUser |-> Filters(RowidUser),
     RowidAlias |-> Filters(RowidAlias),
     UUIDUser |-> Filters(UUIDUser),
     TextPk |-> Filters(TextPk),
     BothPk |-> Filters(BothPk),
     Noted |-> Filters(Noted),
     NoPkWR |-> Filters(NoPkWR)]

\* Users handed to update_user: a user read from the table, or one never
\* added (pk is None), with any attribute values.
UpdateArgs(c, t, rs) ==
    LET pks(got) == {NULL} \cup {got[i]["pk"] : i \in 1..Len(got)}
    IN  {SetAttr(u, "pk", p) : u \in NewUsers[c.name],
                               p \in pks(get_users_by(c, t, rs, 0, <<>>).val)}

Next ==
    \/ \E c \in UserClasses : Construct(c)
    \/ \E u \in NewUsers[user_class.name], f \in BOOLEAN : add_user(u, f)
    \/ \E l \in PkArgs(user_class), d \in {NULL, Word(2)} : Get(l, d)
    \/ \E p \in PkArgs(user_class) : GetUserByPk(p)
    \/ \E a \in {0, 1}, kw \in KwargsOf[user_class.name] : GetUsersBy(a, kw)
    \/ get_all_users
    \/ \E p \in PkArgs(user_class), f \in BOOLEAN : delete_user(p, f)
    \/ \E u \in UpdateArgs(user_class, table, rows), f \in BOOLEAN : update_user(u, f)
    \/ Reclaim

Spec == Init /\ [][Next]_vars

(* ------------------------------ properties ---------------------------- *)
\* The primary-key column of the manager's class resolves.
PkOk == PkColumn[user_class.name].exc = NoExc
PkCol == PkColumn[user_class.name].val
\* Names of the persisted fields of the manager's class, in order.
DbNames ==
    [i \in 1..Len(DbFields[user_class.name].val) |-> DbFields[user_class.name].val[i].name]
\* The elements of sequence s other than x, in order.
Without(s, x) == Pick(s, {i \in 1..Len(s) : s[i] # x}, 1)

\* C1, as stated: whenever add(record) has returned, get_by_pk(record.pk)
\* returns a record whose persisted-field values equal those of the record
\* that was added.
C1_RoundTrip ==
    (last.op = "add" /\ last.exc = NoExc) =>
        LET back == get_user_by_pk(user_class, table, rows, last.user["pk"])
        IN  /\ back.exc = NoExc
            /\ back.res.tag = "user"
            /\ \A i \in 1..Len(DbNames) :
                   back.res.val[DbNames[i]] = last.user[DbNames[i]]

\* C2: an add(record) that returns leaves record.pk equal to the record's
\* own primary-key attribute when the class is WITHOUT ROWID (nothing else
\* of the record changes); otherwise record.pk is the rowid of the row just
\* inserted, and that rowid is also written to the primary-key attribute
\* exactly when the primary-key column is not the implicit 'rowid'.
C2_AddSetsPk ==
    [][(last'.op = "add" /\ last'.exc = NoExc) =>
          \A u \in NewUsers[user_class.name] :
              add_user(u, FALSE) =>
                  IF user_class.without_rowid
                    THEN /\ last'.user = SetAttr(u, "pk", u[PkCol])
                         /\ \E r \in rows' \ rows : rows' = rows \cup {r}
                    ELSE \E r \in rows' \ rows :
                           /\ rows' = rows \cup {r}
                           /\ last'.user["pk"] = IntV(r.rowid)
                           /\ last'.user =
                                 IF PkCol # "rowid"
                                   THEN SetAttr(SetAttr(u, "pk", IntV(r.rowid)),
                                                PkCol, IntV(r.rowid))
                                   ELSE SetAttr(u, "pk", IntV(r.rowid))]_vars

\* An add has returned for a class whose primary-key column is an attribute
\* of a table that keeps its rowid: pk and that attribute hold the rowid.
C2_Witness ==
    /\ last.op = "add" /\ last.exc = NoExc
    /\ ~user_class.without_rowid /\ PkOk /\ PkCol # "rowid"
    /\ last.user["pk"] = last.user[PkCol]
    /\ \E r \in rows : last.user["pk"] = IntV(r.rowid)

LfOk == LookupField[user_class.name].exc = NoExc
LfCol == LookupField[user_class.name].val
\* The rows of the table whose column col equals v, as the store compares.
RowsWhere(col, v) == {r \in rows : Matches(table, r, col, v)}
\* The record a row reads back as: each persisted field holds the stored
\* value (through the registered converter), pk holds the primary key.
RecordOf(r) ==
    [a \in {user_class.fields[i].name : i \in 1..Len(user_class.fields)} |->
        LET col == IF a = "pk" THEN PkCol ELSE a
        IN  IF col \in ColNames(table)
              THEN Convert(Hooks(user_class), Col(table, col).datatype, r.vals[col])
            ELSE IF a = "pk" THEN IntV(r.rowid)
            ELSE Other]

\* C4, as stated: when update(record) returns for a record whose pk names an
\* existing row and whose fields the caller changed, get_by_pk(record.pk)
\* returns a record with the new field values and the same pk, and every
\* other row is unchanged.
C4_UpdateThenRead ==
    [][(last'.op = "update" /\ last'.exc = NoExc /\ PkOk) =>
          \A u \in UpdateArgs(user_class, table, rows) :
              (u["pk"] # NULL /\ update_user(u, FALSE)) =>
                  LET back == get_user_by_pk(user_class, table', rows', u["pk"])
                  IN  /\ back.exc = NoExc
                      /\ back.res.tag = "user"
                      /\ back.res.val["pk"] = u["pk"]
                      /\ \A i \in 1..Len(DbNames) :
                             back.res.val[DbNames[i]] = u[DbNames[i]]
                      /\ rows \ RowsWhere(PkCol, u["pk"]) \subseteq rows']_vars

\* C5: for a class whose primary-key column resolves, delete(pk), the
\* store accepting the commit, does not raise, removes
\* the rows whose primary-key column equals pk and keeps every other row
\* as it was; with no such row the table is unchanged, and no such row is
\* left for a second delete(pk) to remove.
C5_DeleteExactly ==
    [][(last'.op = "delete" /\ PkOk) =>
          \A p \in PkArgs(user_class) :
              delete_user(p, FALSE) =>
                  /\ last'.exc = NoExc
                  /\ rows' = rows \ RowsWhere(PkCol, p)
                  /\ table' = table
                  /\ (RowsWhere(PkCol, p) = {} => rows' = rows)
                  /\ {r \in rows' : Matches(table', r, PkCol, p)} = {}]_vars

\* A delete has removed one row and left another in the table.
C5_Witness ==
    /\ last.op = "delete" /\ last.exc = NoExc /\ last.matched = 1
    /\ rows # {}

\* C6: for a class whose primary-key column and lookup field resolve,
\* get(value, default) returns the default itself when no row's
\* lookup-field column equals value, get_by_pk(pk) returns None when no
\* row's primary-key column equals pk; neither raises, neither changes the
\* table.
C6_NotFoundIsValue ==
    [][(PkOk /\ LfOk) =>
          /\ (last'.op = "get") =>
                \A l \in PkArgs(user_class), d \in {NULL, Word(2)} :
                    (Get(l, d) /\ RowsWhere(LfCol, l) = {}) =>
                        /\ last'.exc = NoExc
                        /\ last'.res = [tag |-> "default", val |-> d]
                        /\ rows' = rows /\ table' = table
          /\ (last'.op = "get_user_by_pk") =>
                \A p \in PkArgs(user_class) :
                    (GetUserByPk(p) /\ RowsWhere(PkCol, p) = {}) =>
                        /\ last'.exc = NoExc
                        /\ last'.res = PyNone
                        /\ rows' = rows /\ table' = table]_vars

\* A get on a table that holds rows has returned the caller's default.
C6_Witness ==
    /\ last.op = "get" /\ last.exc = NoExc
    /\ last.res = [tag |-> "default", val |-> Word(2)]
    /\ rows # {}

\* C7: for a class whose primary-key column and lookup field resolve, get
\* raises the ambiguous-lookup error when more than one row matches
\* the lookup value and returns the matching row's record when exactly one
\* does; get_by_pk does the same for the primary key.
C7_Multiplicity ==
    [][(PkOk /\ LfOk) =>
          /\ (last'.op = "get") =>
                \A l \in PkArgs(user_class), d \in {NULL, Word(2)} :
                    Get(l, d) =>
                        LET hit == RowsWhere(LfCol, l)
                        IN  /\ Cardinality(hit) > 1 =>
                                 last'.exc = "UserClassAttributeError: Defined lookup field is not unique"
                            /\ Cardinality(hit) = 1 =>
                                 /\ last'.exc = NoExc
                                 /\ last'.res.tag = "user"
                                 /\ \E r \in hit : last'.res.val = RecordOf(r)
          /\ (last'.op = "get_user_by_pk") =>
                \A p \in PkArgs(user_class) :
                    GetUserByPk(p) =>
                        LET hit == RowsWhere(PkCol, p)
                        IN  /\ Cardinality(hit) > 1 =>
                                 last'.exc = "UserClassAttributeError: Defined pk column is not unique"
                            /\ Cardinality(hit) = 1 =>
                                 /\ last'.exc = NoExc
                                 /\ last'.res.tag = "user"
                                 /\ \E r \in hit : last'.res.val = RecordOf(r)]_vars

\* get_by_pk has found two rows under one key and raised.
C7_Witness ==
    /\ last.op = "get_user_by_pk"
    /\ last.exc = "UserClassAttributeError: Defined pk column is not unique"
    /\ Cardinality(rows) = 2

\* Names of the columns schema() gives for the manager's class.
SchemaNames ==
    {Schema[user_class.name].val[i].name : i \in 1..Len(Schema[user_class.name].val)}

\* C8, as stated: a construction has succeeded exactly when the table's
\* WITHOUT ROWID flag equals without_rowid() and the set of its column names
\* equals the set of schema() names, whatever the order, datatypes and
\* constraints of the columns; a failed one raised the schema-mismatch error.
C8_SchemaValidation ==
    (um # "uninit") =>
        /\ table.exists
        /\ (um = "ready") <=> /\ table.wr = user_class.without_rowid
                              /\ ColNames(table) = SchemaNames
        /\ (um = "failed" /\ last.op = "construct") =>
               last.exc = "IntegrityError: User class schema differs from the existed one in db"

\* C9, as stated: a handle whose block completed has committed and is
\* closed; a handle whose block raised is closed without committing, so
\* the table holds the rows it held before the operation.
C9_CommitDiscipline ==
    [][(last'.opened /\ last'.exc # "OperationalError: commit") =>
          IF last'.exc = NoExc
            THEN last'.committed /\ last'.closed
            ELSE last'.closed /\ rows' = rows]_vars

\* C10, as stated: no handle the manager opened is open between two
\* operations, and every operation that opened one has closed it.
C10_HandleRelease ==
    /\ handles = 0
    /\ last.opened => last.closed

(* --------------------- descriptor specification ----------------------- *)
\* Largest number of attributes, after pk, a declared record type has.
MaxFields == 2

\* Attributes a record type may declare.
FieldChoices ==
    {Fld("code", TRUE, "TEXT", PRIMARY_KEY, FALSE, "str", FALSE),
     Fld("code", TRUE, "TEXT", EMPTY, FALSE, "str", FALSE),
     Fld("id", TRUE, "INTEGER", PRIMARY_KEY_ASC, FALSE, "int|None", TRUE),
     Fld("uuid", TRUE, "", primary_key, FALSE, "UUID", FALSE),
     Fld("name", TRUE, "TEXT", EMPTY, TRUE, "str", FALSE),
     Fld("last_name", TRUE, "", EMPTY, TRUE, "str", FALSE),
     Fld("non_schema_field", FALSE, "", EMPTY, FALSE, "datetime", FALSE)}

\* The attribute lists of at most n attributes with distinct names.
RECURSIVE FieldLists(_)
FieldLists(n) ==
    IF n = 0 THEN {<<>>}
    ELSE FieldLists(n - 1) \cup
         {Append(fs, f) : fs \in FieldLists(n - 1), f \in FieldChoices}

DistinctNames(fs) == \A i, j \in 1..Len(fs) : fs[i].name = fs[j].name => i = j

\* Record types: any choice of without_rowid(), of table_constraints() and
\* of attributes, and the classes of the manager's specification.
DeclaredClasses ==
    AllClasses \cup
    {[name |-> "Declared", without_rowid |-> w, table_constraints |-> tc,
      fields |-> <<PkField>> \o fs] :
        w \in BOOLEAN, tc \in {EMPTY, PK_CODE, PK_CODE_NAME},
        fs \in {x \in FieldLists(MaxFields) : DistinctNames(x)}}

InitDescriptor ==
    /\ um = "uninit"
    /\ user_class \in DeclaredClasses
    /\ table = NoTable
    /\ rows = {}
    /\ handles = 0
    /\ last = Outcome("none", NoExc, PyNone, <<>>, FALSE, 0, 0, FALSE, FALSE, <<>>)

\* A classmethod of user_class is called: what it returned or raised.
ClassCall(op, r) ==
    /\ last' = Outcome(op, r.exc, [tag |-> "value", val |-> r.val], <<>>,
                       FALSE, 0, 0, FALSE, FALSE, <<>>)
    /\ UNCHANGED <<um, user_class, table, rows, handles>>

CallPkColumn == ClassCall("pk_column", pk_column(user_class))
CallLookupField == ClassCall("lookup_field", lookup_field(user_class))
CallSelectKeys == ClassCall("select_keys", select_keys(user_class))
CallSchema == ClassCall("schema", schema(user_class))

NextDescriptor ==
    \/ CallPkColumn
    \/ CallLookupField
    \/ CallSelectKeys
    \/ CallSchema

SpecDescriptor == InitDescriptor /\ [][NextDescriptor]_vars

(* ----------------------- descriptor properties ------------------------ *)
\* The definition clause of attribute f holds the marker "primary key",
\* whatever its case.
HasMarker(f) == f.definition # EMPTY /\ Contains(Lower(f.definition), primary_key)
\* The persisted attributes of user_class, in declaration order.
Persisted ==
    Pick(user_class.fields,
         {i \in 1..Len(user_class.fields) : user_class.fields[i].goes_to_db}, 1)
\* The persisted attributes marked primary key, and those flagged lookup.
MarkedFields == Pick(Persisted, {i \in 1..Len(Persisted) : HasMarker(Persisted[i])}, 1)
LookupFields == Pick(Persisted, {i \in 1..Len(Persisted) : Persisted[i].lookup_field}, 1)
\* table_constraints() names a primary key.
HasTablePk == Contains(Lower(user_class.table_constraints), primary_key)
\* The last call returned v.
Returned(v) == last.exc = NoExc /\ last.res.val = v

C12_NoPrimaryKey ==
    (um # "uninit" /\ user_class.without_rowid /\ MarkedFields = <<>>) =>
        /\ schema(user_class).exc =
               "AttributeError: No primary key defined among user class attributes"
        /\ um = "failed"
        /\ last.op = "construct" =>
               last.exc = "AttributeError: No primary key defined among user class attributes"

\* C13: for every record type, select_keys() is the list whose first
\* element is "<pk_column()> AS pk" and whose other elements are the names
\* of the persisted fields, and only those, in declaration order, the
\* primary-key field among them; it raises what pk_column() raises.
C13_SelectKeys ==
    last.op = "select_keys" =>
        IF pk_column(user_class).exc # NoExc THEN last.exc = pk_column(user_class).exc
        ELSE /\ last.exc = NoExc
             /\ Len(last.res.val) = 1 + Len(Persisted)
             /\ last.res.val[1] = [col |-> pk_column(user_class).val, as |-> "pk"]
             /\ \A i \in 1..Len(Persisted) :
                    last.res.val[i + 1] = [col |-> Persisted[i].name, as |-> ""]

\* select_keys() has returned for a type with a non-persisted field and a
\* persisted primary-key field, which the list names twice.
C13_Witness ==
    /\ last.op = "select_keys" /\ last.exc = NoExc
    /\ \E i \in 2..Len(user_class.fields) : ~user_class.fields[i].goes_to_db
    /\ \E i \in 2..Len(last.res.val) : last.res.val[i].col = last.res.val[1].col

\* The manager's class keeps the implicit rowid as its primary key.
ImplicitRowid == PkOk /\ PkCol = "rowid"
\* What get_all_users() returns on the table as it is, and as it will be.
AllNow == get_users_by(user_class, table, rows, 0, <<>>)
AllNext == get_users_by(user_class, table', rows', 0, <<>>)

Kept(and_or, kw) ==
    IF DOMAIN kw = {} THEN rows
    ELSE IF and_or = 0
      THEN {r \in rows : \A c \in DOMAIN kw : r \in RowsWhere(c, kw[c])}
      ELSE UNION {RowsWhere(c, kw[c]) : c \in DOMAIN kw}
\* The list in last' holds the records of the rows rs, one for each.
Lists(rs) ==
    /\ last'.exc = NoExc
    /\ Len(last'.res.val) = Cardinality(rs)
    /\ {last'.res.val[i] : i \in 1..Len(last'.res.val)} = {RecordOf(r) : r \in rs}

\* C15: for a class whose primary-key column resolves, get_users_by
\* returns the records of exactly the rows for which all the column = value
\* filters hold when and_or is 0, of the rows for which at least one holds
\* when it is 1, and of every row when there is no filter, which is what
\* get_all_users() returns; neither changes the table.
C15_GetUsersBy ==
    [][PkOk =>
          /\ last'.op = "get_users_by" =>
                 \A a \in {0, 1}, kw \in KwargsOf[user_class.name] :
                     GetUsersBy(a, kw) =>
                         Lists(Kept(a, kw)) /\ rows' = rows /\ table' = table
          /\ last'.op = "get_all_users" =>
                 (get_all_users => Lists(rows) /\ rows' = rows /\ table' = table)]_vars

\* A filtered read has returned one of the two rows of the table.
C15_Witness ==
    /\ PkOk /\ last.op = "get_users_by" /\ last.exc = NoExc
    /\ Cardinality(rows) = 2 /\ Len(last.res.val) = 1
    /\ \E r \in rows : last.res.val[1] = RecordOf(r)

\* C16, as stated: for every record type whose primary-key column
\* resolves, after add(record) returns, record.pk equals the value held in
\* the primary-key column of the row just inserted (as a read returns it),
\* and the record's primary-key attribute holds that value too.
C16_PkIsStoredKey ==
    [][(last'.op = "add" /\ last'.exc = NoExc /\ PkOk) =>
          \A u \in NewUsers[user_class.name] :
              add_user(u, FALSE) =>
                  \E r \in rows' \ rows :
                      /\ rows' = rows \cup {r}
                      /\ last'.user["pk"] = RecordOf(r)["pk"]
                      /\ PkCol \in DOMAIN u => last'.user[PkCol] = RecordOf(r)["pk"]]_vars

\* The columns the primary-key clause of table_constraints() lists.
TablePkColumns ==
    IF user_class.table_constraints = PK_CODE THEN <<"code">>
    ELSE IF user_class.table_constraints = PK_CODE_NAME THEN <<"code", "name">>
    ELSE <<>>

\* C17, as stated: for a record type with a persisted field whose
\* table_constraints() holds "PRIMARY KEY (c)", pk_column() returns c when
\* no field is marked primary key and rejects the type as defining multiple
\* primary keys when one is; when the clause lists more than one column,
\* pk_column() raises the multi-column-not-supported error.
C17_TableLevelPk ==
    (last.op = "pk_column" /\ HasTablePk /\ Persisted # <<>>) =>
        /\ (Len(TablePkColumns) = 1 /\ MarkedFields = <<>>) =>
               Returned(TablePkColumns[1])
        /\ (Len(TablePkColumns) = 1 /\ MarkedFields # <<>>) =>
               last.exc = "AttributeError: You can't define multiple primary keys"
        /\ Len(TablePkColumns) > 1 =>
               last.exc = "ValueError: Multiple column primary keys are not supported yet"
====
